---------------------------- MODULE Spec2Model ----------------------------
(* Model of src/universe_game.py: the UniverseGame session (Conway's Game  *)
(* of Life on a bounded grid), its PatternDetector and the operations the  *)
(* tool dispatcher calls on the single global session.                     *)
(*                                                                         *)
(* A grid is a function from Cells to {0, 1} (the numpy int array).  The   *)
(* source fixes GRID_SIZE = 20 and max_turns = 20; the model keeps both as *)
(* named bounds so that the reachable states can be enumerated.            *)
EXTENDS Integers, Sequences, FiniteSets, TLC

VARIABLES
    universe,           \* self.universe (line 134): the current grid
    turn,               \* self.turn (line 135)
    grid_history,       \* self.grid_history (line 139): the pre-step grids
    detected_patterns,  \* self.detected_patterns (line 141): the pattern log
    statistics,         \* self.statistics (lines 144-150)
    reply,              \* the result of the last tool call (lines 472-508)
    edits,              \* flip_cell / add_pattern requests served so far
    history_shared      \* per history entry: is it the array object that
                        \* self.universe refers to (lines 154, 182-183)

vars == <<universe, turn, grid_history, detected_patterns, statistics,
          reply, edits, history_shared>>

(* ------------------------------ bounds -------------------------------- *)

GRID_SIZE == 4

max_turns == 4

MaxEdits == 1

MaxSeedLive == 3

(* ------------------------- program constants -------------------------- *)

display_frequency == 10

MIN_ALIVE_SENTINEL == 999

RECENT_IN_SUMMARY == 3

RECENT_IN_STATE == 5

POPULATION_WINDOW == 20

(* ------------------------------ helpers ------------------------------- *)

Min(a, b) == IF a < b THEN a ELSE b

Max(a, b) == IF a > b THEN a ELSE b

Cells == (0 .. GRID_SIZE - 1) \X (0 .. GRID_SIZE - 1)

Grids == [Cells -> {0, 1}]

zeros == [c \in Cells |-> 0]

(* The grid whose live cells are exactly those of `live` that lie on it.   *)
GridOf(live) == [c \in Cells |-> IF c \in live THEN 1 ELSE 0]

(* s[-k:] of Python: the last k elements of s (all of s when shorter).     *)
LastK(s, k) == SubSeq(s, Max(1, Len(s) - k + 1), Len(s))

(* np.sum over the slice g[ilo:ihi, jlo:jhi] with 0 <= ilo, 0 <= jlo; a    *)
(* slice stop beyond the array is clamped to the array's extent.           *)
RECURSIVE SumRow(_, _, _, _)
SumRow(g, i, jlo, jhi) ==
    IF jlo >= jhi THEN 0 ELSE g[<<i, jlo>>] + SumRow(g, i, jlo + 1, jhi)

RECURSIVE SumRows(_, _, _, _, _)
SumRows(g, ilo, ihi, jlo, jhi) ==
    IF ilo >= ihi THEN 0
    ELSE SumRow(g, ilo, jlo, jhi) + SumRows(g, ilo + 1, ihi, jlo, jhi)

np_sum_slice(g, ilo, ihi, jlo, jhi) ==
    SumRows(g, ilo, Min(ihi, GRID_SIZE), jlo, Min(jhi, GRID_SIZE))

(* np.sum(grid): the population.                                           *)
np_sum(g) == np_sum_slice(g, 0, GRID_SIZE, 0, GRID_SIZE)

(* --------------------------- PatternDetector -------------------------- *)

(* Mutant: the period-2 test made against the last entry, the period-3    *)
(* test against the one before it.                                         *)
detect_oscillators_one_late(grid, history) ==
    IF Len(history) < 3 THEN <<>>
    ELSE (IF grid = history[Len(history)]
             THEN << [type |-> "2-period_oscillator", period |-> 2] >>
             ELSE <<>>)
         \o
         (IF Len(history) >= 3 /\ grid = history[Len(history) - 1]
             THEN << [type |-> "3-period_oscillator", period |-> 3] >>
             ELSE <<>>)

(* Lines 18-33: history[-2] and history[-3] of a history that already      *)
(* holds the pre-step grid as its last entry.                              *)
detect_oscillators(grid, history) ==
    IF Len(history) < 3 THEN <<>>
    ELSE (IF grid = history[Len(history) - 1]
             THEN << [type |-> "2-period_oscillator", period |-> 2] >>
             ELSE <<>>)
         \o
         (IF Len(history) >= 3 /\ grid = history[Len(history) - 2]
             THEN << [type |-> "3-period_oscillator", period |-> 3] >>
             ELSE <<>>)

(* Mutant: the population test left out.                                   *)
detect_still_lifes_any(grid, prev_grid) ==
    IF grid = prev_grid
        THEN << [type |-> "still_life", cells |-> np_sum(grid)] >>
        ELSE <<>>

detect_still_lifes(grid, prev_grid) ==
    IF grid = prev_grid /\ np_sum(grid) > 0
        THEN << [type |-> "still_life", cells |-> np_sum(grid)] >>
        ELSE <<>>

(* The double loop over the 3x3 windows, row-major: window number k has    *)
(* its top-left corner at (k div (GRID_SIZE-2), k mod (GRID_SIZE-2)).      *)
RECURSIVE glider_scan(_, _)
glider_scan(grid, k) ==
    IF k >= (GRID_SIZE - 2) * (GRID_SIZE - 2) THEN <<>>
    ELSE LET i == k \div (GRID_SIZE - 2)
             j == k % (GRID_SIZE - 2)
         IN  (IF np_sum_slice(grid, i, i + 3, j, j + 3) = 5
                 THEN << [type |-> "potential_glider",
                          position |-> <<i, j>>, cells |-> 5] >>
                 ELSE <<>>)
             \o glider_scan(grid, k + 1)

(* Mutant: the scan already runs on a history of 3 entries.                *)
detect_gliders_from_three(grid, history) ==
    IF Len(history) < 3 THEN <<>> ELSE glider_scan(grid, 0)

detect_gliders(grid, history) ==
    IF Len(history) < 4 THEN <<>> ELSE glider_scan(grid, 0)

(* ----------------------------- UniverseGame --------------------------- *)

initial_statistics ==
    [max_alive |-> 0, min_alive |-> MIN_ALIVE_SENTINEL, total_births |-> 0,
     total_deaths |-> 0, generations_stable |-> 0]

(* Mutant: the cell's own state left in the neighbour sum.                 *)
neighbors_with_self(u, i, j) ==
    np_sum_slice(u, Max(i - 1, 0), i + 2, Max(j - 1, 0), j + 2)

(* Line 159: the sum of the 3x3 window clipped to the grid, minus the cell.*)
neighbors(u, i, j) ==
    np_sum_slice(u, Max(i - 1, 0), i + 2, Max(j - 1, 0), j + 2) - u[<<i, j>>]

(* Lines 160-163: the fate of one cell.                                    *)
(* Mutant: a live cell survives on 3 neighbours only.                      *)
next_cell_three_only(alive, n) == IF n = 3 THEN 1 ELSE 0

next_cell(alive, n) ==
    IF alive = 1 THEN (IF n \in {2, 3} THEN 1 ELSE 0)
                 ELSE (IF n = 3 THEN 1 ELSE 0)

(* Lines 155-163: new_grid is filled from self.universe, which the loop    *)
(* never writes.                                                           *)
next_grid(u) == [c \in Cells |-> next_cell(u[c], neighbors(u, c[1], c[2]))]

(* Mutant: a shrinking population counted with the new population instead *)
(* of the difference.                                                      *)
update_statistics_deaths_total(st, old_grid, new_grid) ==
    LET old_alive == np_sum(old_grid)
        new_alive == np_sum(new_grid)
    IN  [max_alive    |-> Max(st.max_alive, new_alive),
         min_alive    |-> Min(st.min_alive, new_alive),
         total_births |-> IF new_alive > old_alive
                             THEN st.total_births + (new_alive - old_alive)
                             ELSE st.total_births,
         total_deaths |-> IF new_alive < old_alive
                             THEN st.total_deaths + old_alive
                             ELSE st.total_deaths,
         generations_stable |-> IF old_grid = new_grid
                                   THEN st.generations_stable + 1
                                   ELSE 0]

(* Mutant: a step counted as stable when the population did not change.    *)
update_statistics_stable_by_count(st, old_grid, new_grid) ==
    LET old_alive == np_sum(old_grid)
        new_alive == np_sum(new_grid)
    IN  [max_alive    |-> Max(st.max_alive, new_alive),
         min_alive    |-> Min(st.min_alive, new_alive),
         total_births |-> IF new_alive > old_alive
                             THEN st.total_births + (new_alive - old_alive)
                             ELSE st.total_births,
         total_deaths |-> IF new_alive < old_alive
                             THEN st.total_deaths + (old_alive - new_alive)
                             ELSE st.total_deaths,
         generations_stable |-> IF old_alive = new_alive
                                   THEN st.generations_stable + 1
                                   ELSE 0]

(* Lines 166-180: the statistics after a step from old_grid to new_grid.   *)
update_statistics(st, old_grid, new_grid) ==
    LET old_alive == np_sum(old_grid)
        new_alive == np_sum(new_grid)
    IN  [max_alive    |-> Max(st.max_alive, new_alive),
         min_alive    |-> Min(st.min_alive, new_alive),
         total_births |-> IF new_alive > old_alive
                             THEN st.total_births + (new_alive - old_alive)
                             ELSE st.total_births,
         total_deaths |-> IF new_alive < old_alive
                             THEN st.total_deaths + (old_alive - new_alive)
                             ELSE st.total_deaths,
         generations_stable |-> IF old_grid = new_grid
                                   THEN st.generations_stable + 1
                                   ELSE 0]

(* Mutant: a grid found to be a still life is not tested for oscillation.  *)
turn_patterns_still_only(grid, history) ==
    IF Len(history) > 0
        THEN LET still == detect_still_lifes(grid, history[Len(history)])
             IN  still
                 \o (IF still = <<>> THEN detect_oscillators(grid, history)
                                     ELSE <<>>)
                 \o detect_gliders(grid, history)
        ELSE <<>>

(* Mutant: the glider candidates listed ahead of the other matches.        *)
turn_patterns_gliders_first(grid, history) ==
    IF Len(history) > 0
        THEN detect_gliders(grid, history)
             \o detect_still_lifes(grid, history[Len(history)])
             \o detect_oscillators(grid, history)
        ELSE <<>>

(* Lines 190-205: the pattern list of one turn.                            *)
turn_patterns(grid, history) ==
    IF Len(history) > 0
        THEN detect_still_lifes(grid, history[Len(history)])
             \o detect_oscillators(grid, history)
             \o detect_gliders(grid, history)
        ELSE <<>>

(* Mutant: a record is appended for every step, matches or not.            *)
detect_patterns_always(log, grid, history, t) ==
    Append(log, [turn |-> t, patterns |-> turn_patterns(grid, history)])

(* Lines 207-211: the record is appended only for a non-empty list, under  *)
(* the value self.turn has when detect_patterns runs.                      *)
detect_patterns(log, grid, history, t) ==
    LET patterns == turn_patterns(grid, history)
    IN  IF patterns # <<>>
            THEN Append(log, [turn |-> t, patterns |-> patterns])
            ELSE log

should_show_detailed_display(t) == (t % display_frequency = 0) \/ (t = 1)

get_summary(u, t, log) ==
    [turn |-> t, alive_cells |-> np_sum(u),
     recent_patterns |-> LastK(log, RECENT_IN_SUMMARY),
     display_milestone |-> should_show_detailed_display(t)]

in_range(x, y) == 0 <= x /\ x < GRID_SIZE /\ 0 <= y /\ y < GRID_SIZE

(* Mutant: the cell set alive instead of toggled.                          *)
flip_cell_set_alive(u, x, y) ==
    IF in_range(x, y)
        THEN LET flipped == [u EXCEPT ![<<x, y>>] = 1]
             IN  [universe |-> flipped,
                  message |-> [kind |-> "flipped", x |-> x, y |-> y,
                               from |-> u[<<x, y>>],
                               to |-> flipped[<<x, y>>]]]
        ELSE [universe |-> u,
              message |-> [kind |-> "invalid_coordinates", x |-> x, y |-> y]]

(* Mutant: coordinates off the grid clamped to the nearest cell instead of *)
(* refused.                                                                *)
flip_cell_clamped(u, x, y) ==
    LET cx == Max(0, Min(x, GRID_SIZE - 1))
        cy == Max(0, Min(y, GRID_SIZE - 1))
        flipped == [u EXCEPT ![<<cx, cy>>] = 1 - u[<<cx, cy>>]]
    IN  [universe |-> flipped,
         message |-> [kind |-> "flipped", x |-> x, y |-> y,
                      from |-> u[<<cx, cy>>], to |-> flipped[<<cx, cy>>]]]

(* flip_cell: the grid and the message it returns.                         *)
flip_cell(u, x, y) ==
    IF in_range(x, y)
        THEN LET flipped == [u EXCEPT ![<<x, y>>] = 1 - u[<<x, y>>]]
             IN  [universe |-> flipped,
                  message |-> [kind |-> "flipped", x |-> x, y |-> y,
                               from |-> u[<<x, y>>],
                               to |-> flipped[<<x, y>>]]]
        ELSE [universe |-> u,
              message |-> [kind |-> "invalid_coordinates", x |-> x, y |-> y]]

PatternNames == {"glider", "blinker", "block", "beacon"}

pattern_offsets(name) ==
    CASE name = "glider"  -> << <<0, 1>>, <<1, 2>>, <<2, 0>>, <<2, 1>>, <<2, 2>> >>
      [] name = "blinker" -> << <<0, 0>>, <<0, 1>>, <<0, 2>> >>
      [] name = "block"   -> << <<0, 0>>, <<0, 1>>, <<1, 0>>, <<1, 1>> >>
      [] name = "beacon"  -> << <<0, 0>>, <<0, 1>>, <<1, 0>>,
                                <<2, 3>>, <<3, 2>>, <<3, 3>> >>

(* Lines 315-317: the offsets are stamped one by one, those off the grid   *)
(* skipped.                                                                *)
RECURSIVE place_pattern(_, _, _, _)
place_pattern(u, offsets, x, y) ==
    IF offsets = <<>> THEN u
    ELSE LET dx == Head(offsets)[1]
             dy == Head(offsets)[2]
             stamped == IF in_range(x + dx, y + dy)
                           THEN [u EXCEPT ![<<x + dx, y + dy>>] = 1]
                           ELSE u
         IN  place_pattern(stamped, Tail(offsets), x, y)

(* Mutant: the pattern stamped onto the grid as it is, without the clear.  *)
add_pattern_no_clear(u, pattern_name, x, y) ==
    IF pattern_name \notin PatternNames
        THEN [universe |-> u,
              message |-> [kind |-> "unknown_pattern", pattern |-> pattern_name]]
        ELSE [universe |-> place_pattern(u, pattern_offsets(pattern_name), x, y),
              message |-> [kind |-> "added", pattern |-> pattern_name,
                           x |-> x, y |-> y]]

(* add_pattern: the grid and the message it returns.                       *)
add_pattern(u, pattern_name, x, y) ==
    IF pattern_name \notin PatternNames
        THEN [universe |-> u,
              message |-> [kind |-> "unknown_pattern", pattern |-> pattern_name]]
        ELSE [universe |-> place_pattern(zeros, pattern_offsets(pattern_name), x, y),
              message |-> [kind |-> "added", pattern |-> pattern_name,
                           x |-> x, y |-> y]]

(* Mutant: the history capped to its last three entries.                   *)
append_history_capped(history, old_grid) ==
    LastK(Append(history, old_grid), 3)

(* Line 183: the pre-step grid appended to the history.                    *)
append_history(history, old_grid) == Append(history, old_grid)

(* Mutant: the entry appended is the array self.universe goes on referring *)
(* to (no copy, the grid updated in place).                                *)
shared_after_step_no_copy(shared) ==
    Append([k \in 1 .. Len(shared) |-> FALSE], TRUE)

(* Lines 154-155 and 182-183: old_grid is a copy and self.universe is      *)
(* rebound to the new array new_grid, so after a step no history entry is  *)
(* the array self.universe refers to.                                      *)
shared_after_step(shared) ==
    Append([k \in 1 .. Len(shared) |-> FALSE], FALSE)

(* Lines 295 and 312-317 write into the array self.universe refers to: a   *)
(* history entry that is this array shows the written grid.                *)
write_through(history, shared, grid) ==
    [k \in 1 .. Len(history) |-> IF shared[k] THEN grid ELSE history[k]]

(* Mutant: the Finished test off by one.                                   *)
finished_after_limit(t) == t > max_turns

(* Line 323: the Finished test of step().                                  *)
finished(t) == t >= max_turns

(* __init__ (lines 132-150): the fields of a session built on `grid`.      *)
new_session(grid) ==
    [universe |-> grid, turn |-> 0, grid_history |-> <<>>,
     detected_patterns |-> <<>>, statistics |-> initial_statistics]

(* Mutant: the pattern log of the old session carried over.               *)
reset_keeps_log(self, grid) ==
    [new_session(grid) EXCEPT !.detected_patterns = self.detected_patterns]

(* reset() (line 348): __init__ run again on the session `self`, every     *)
(* field assigned anew.                                                    *)
reset(self, grid) == new_session(grid)

(* ------------------------------ inputs -------------------------------- *)

(* Initial grids: np.random.choice may produce any grid; the model draws   *)
(* from a fixed family: a cell that dies, a block (still), a blinker and a *)
(* beacon (period 2), a glider (five cells), a tromino that grows and a    *)
(* boat (a still life of five cells).                                      *)
SeedCells ==
    { {<<0, 0>>},
      {<<0, 0>>, <<0, 1>>, <<1, 0>>, <<1, 2>>, <<2, 1>>},
      {<<1, 1>>, <<1, 2>>, <<2, 1>>, <<2, 2>>},
      {<<1, 0>>, <<1, 1>>, <<1, 2>>},
      {<<0, 1>>, <<1, 2>>, <<2, 0>>, <<2, 1>>, <<2, 2>>},
      {<<0, 0>>, <<0, 1>>, <<1, 0>>},
      {<<0, 0>>, <<0, 1>>, <<1, 0>>, <<2, 3>>, <<3, 2>>, <<3, 3>>} }

SeedGrids == {GridOf(live) : live \in SeedCells}

(* Every coordinate a request may carry, one step beyond the grid on both  *)
(* sides included.                                                         *)
CoordInputs == -1 .. GRID_SIZE

NameInputs == PatternNames \cup {"pulsar"}

(* The requests the interleaved specification issues between steps: flips  *)
(* of a corner, of two inner cells and of two cells off the grid, and four *)
(* stamps.                                                                 *)
FlipInputs == { <<0, 0>>, <<1, 2>>, <<2, 1>>, <<-1, 0>>, <<0, GRID_SIZE>> }

StampInputs == { <<"block", 1, 1>>, <<"glider", 0, 0>>,
                 <<"blinker", GRID_SIZE - 2, GRID_SIZE - 2>>, <<"pulsar", 1, 1>> }

AllFlipInputs == CoordInputs \X CoordInputs

AllStampInputs == NameInputs \X CoordInputs \X CoordInputs

(* ------------------------------ actions ------------------------------- *)

Init ==
    /\ \E grid \in SeedGrids :
          LET fresh == new_session(grid)
          IN  /\ universe = fresh.universe
              /\ turn = fresh.turn
              /\ grid_history = fresh.grid_history
              /\ detected_patterns = fresh.detected_patterns
              /\ statistics = fresh.statistics
    /\ reply = [op |-> "none"]
    /\ edits = 0
    /\ history_shared = <<>>

(* step(): lines 321-330, with update_universe (152-186) inlined.          *)
Step ==
    IF finished(turn)
        THEN /\ reply' = [op |-> "step_universe", status |-> "game_finished"]
             /\ UNCHANGED <<universe, turn, grid_history, detected_patterns,
                            statistics, edits, history_shared>>
        ELSE /\ universe' = next_grid(universe)
             /\ statistics' = update_statistics(statistics, universe, universe')
             /\ grid_history' = append_history(grid_history, universe)
             /\ history_shared' = shared_after_step(history_shared)
             /\ detected_patterns' =
                    detect_patterns(detected_patterns, universe',
                                    grid_history', turn)
             /\ turn' = turn + 1
             /\ reply' = [op |-> "step_universe",
                          summary |-> get_summary(universe', turn',
                                                  detected_patterns')]
             /\ UNCHANGED edits

FlipCellIn(inputs) ==
    /\ edits < MaxEdits
    /\ \E in \in inputs :
          LET r == flip_cell(universe, in[1], in[2])
          IN  /\ universe' = r.universe
              /\ grid_history' =
                     write_through(grid_history, history_shared, r.universe)
              /\ reply' = [op |-> "flip_cell", message |-> r.message,
                           summary |-> get_summary(r.universe, turn,
                                                   detected_patterns)]
    /\ edits' = edits + 1
    /\ UNCHANGED <<turn, detected_patterns, statistics, history_shared>>

AddPatternIn(inputs) ==
    /\ edits < MaxEdits
    /\ \E in \in inputs :
          LET r == add_pattern(universe, in[1], in[2], in[3])
          IN  /\ universe' = r.universe
              /\ grid_history' =
                     write_through(grid_history, history_shared, r.universe)
              /\ reply' = [op |-> "add_pattern", message |-> r.message,
                           summary |-> get_summary(r.universe, turn,
                                                   detected_patterns)]
    /\ edits' = edits + 1
    /\ UNCHANGED <<turn, detected_patterns, statistics, history_shared>>

FlipCell == FlipCellIn(FlipInputs)

AddPattern == AddPatternIn(StampInputs)

FlipCellAny == FlipCellIn(AllFlipInputs)

AddPatternAny == AddPatternIn(AllStampInputs)

(* A step taken before the first flip or stamp request.                    *)
StepBeforeEdit == edits = 0 /\ Step

GetState ==
    /\ reply' = [op |-> "get_universe_state",
                 turn |-> turn, max_turns |-> max_turns,
                 alive_cells |-> np_sum(universe), universe |-> universe,
                 grid_size |-> GRID_SIZE, statistics |-> statistics,
                 recent_patterns |-> LastK(detected_patterns, RECENT_IN_STATE)]
    /\ UNCHANGED <<universe, turn, grid_history, detected_patterns,
                   statistics, edits, history_shared>>

GetAnalytics ==
    /\ reply' = [op |-> "get_analytics",
                 total_turns |-> turn, statistics |-> statistics,
                 all_patterns |-> detected_patterns,
                 population_history |->
                     LET recent == LastK(grid_history, POPULATION_WINDOW)
                     IN  [k \in 1 .. Len(recent) |-> np_sum(recent[k])]]
    /\ UNCHANGED <<universe, turn, grid_history, detected_patterns,
                   statistics, edits, history_shared>>

(* The fields of the session as one record.                                *)
session ==
    [universe |-> universe, turn |-> turn, grid_history |-> grid_history,
     detected_patterns |-> detected_patterns, statistics |-> statistics]

(* reset(): lines 346-354; the new grid is any of the seed grids.          *)
Reset ==
    /\ \E grid \in SeedGrids :
          LET fresh == reset(session, grid)
          IN  /\ universe' = fresh.universe
              /\ turn' = fresh.turn
              /\ grid_history' = fresh.grid_history
              /\ detected_patterns' = fresh.detected_patterns
              /\ statistics' = fresh.statistics
              /\ reply' = [op |-> "reset_universe", status |-> "reset",
                           summary |-> get_summary(fresh.universe, fresh.turn,
                                                   fresh.detected_patterns)]
    /\ history_shared' = <<>>
    /\ UNCHANGED edits

Next == Step \/ FlipCell \/ AddPattern \/ GetState \/ GetAnalytics \/ Reset

Spec == Init /\ [][Next]_vars

(* Runs of steps alone, from every grid with at most MaxSeedLive live      *)
(* cells, anywhere on the grid, and from the seed grids.                   *)
RECURSIVE LiveSets(_)
LiveSets(k) ==
    IF k = 0 THEN {{}}
    ELSE LET fewer == LiveSets(k - 1)
         IN  fewer \cup {l \cup {c} : l \in fewer, c \in Cells}

SparseGrids == {GridOf(live) : live \in LiveSets(MaxSeedLive)} \cup SeedGrids

RuleInit ==
    /\ \E grid \in SparseGrids :
          LET fresh == new_session(grid)
          IN  /\ universe = fresh.universe
              /\ turn = fresh.turn
              /\ grid_history = fresh.grid_history
              /\ detected_patterns = fresh.detected_patterns
              /\ statistics = fresh.statistics
    /\ reply = [op |-> "none"]
    /\ edits = 0
    /\ history_shared = <<>>

RuleNext == Step

RuleSpec == RuleInit /\ [][RuleNext]_vars

(* A run of steps, then one flip or stamp request with any input, then    *)
(* further requests of the small family.                                   *)
EditNext ==
    \/ StepBeforeEdit
    \/ (edits = 0 /\ FlipCellAny)
    \/ (edits = 0 /\ AddPatternAny)
    \/ FlipCell
    \/ AddPattern

EditSpec == Init /\ [][EditNext]_vars

(* ---------------------- MCPServer.handle_message ---------------------- *)

(* The JSON values an argument of a request may hold: no value at all, a   *)
(* null, an integer, a number with a fractional part (num and a half), a   *)
(* string of the decimal digits of an integer (such as "2"), any other     *)
(* string (text), or an array.                                             *)
JsonAbsent == [json |-> "absent", num |-> 0, text |-> ""]

JsonNull == [json |-> "null", num |-> 0, text |-> ""]

JsonInt(n) == [json |-> "int", num |-> n, text |-> ""]

JsonFraction(n) == [json |-> "fraction", num |-> n, text |-> ""]

JsonNumeral(n) == [json |-> "numeral", num |-> n, text |-> ""]

JsonString(s) == [json |-> "string", num |-> 0, text |-> s]

JsonArray == [json |-> "array", num |-> 0, text |-> ""]

INTERNAL_ERROR == -32603

METHOD_NOT_FOUND == -32601

DEFAULT_COORDINATE == 10

(* arguments.get(key): None for a key that is absent or null.              *)
is_none(v) == v.json \in {"absent", "null"}

(* arguments.get(key, default): the default for an absent key only.        *)
get_or_default(v, default) == IF v.json = "absent" THEN JsonInt(default) ELSE v

(* int(v): an integer as it is, a number with a fractional part cut        *)
(* towards zero, a string of digits parsed; None, any other string and an  *)
(* array raise.                                                            *)
py_int(v) ==
    CASE v.json = "int" -> [raised |-> FALSE, value |-> v.num]
      [] v.json = "numeral" -> [raised |-> FALSE, value |-> v.num]
      [] v.json = "fraction" ->
            [raised |-> FALSE, value |-> IF v.num >= 0 THEN v.num ELSE v.num + 1]
      [] OTHER -> [raised |-> TRUE, value |-> 0]

(* `not pattern`: None, the empty string and the number 0 are falsy.       *)
is_falsy(v) ==
    \/ is_none(v)
    \/ v.json = "string" /\ v.text = ""
    \/ v.json = "int" /\ v.num = 0

(* Lines 510-521 and 523-530, 533-540: the two envelopes of a response.    *)
success_response(result) == [envelope |-> "result", result |-> result]

error_response(code) == [envelope |-> "error", code |-> code]

(* Lines 478-490: the flip_cell branch, the grid it leaves and the         *)
(* response; an exception of int() is caught at line 522.                  *)
call_flip_cell(u, t, log, x, y) ==
    IF is_none(x) \/ is_none(y)
        THEN [universe |-> u,
              response |-> success_response(
                               [error |-> "Missing x or y coordinate"])]
    ELSE IF py_int(x).raised \/ py_int(y).raised
        THEN [universe |-> u, response |-> error_response(INTERNAL_ERROR)]
    ELSE LET r == flip_cell(u, py_int(x).value, py_int(y).value)
         IN  [universe |-> r.universe,
              response |-> success_response(
                               [message |-> r.message,
                                summary |-> get_summary(r.universe, t, log)])]

(* Lines 491-504: the add_pattern branch; int(x) and int(y) are evaluated  *)
(* before add_pattern is entered, and the membership test of line 308      *)
(* raises for an array, which cannot be hashed.                            *)
call_add_pattern(u, t, log, pattern, x, y) ==
    LET ix == py_int(get_or_default(x, DEFAULT_COORDINATE))
        iy == py_int(get_or_default(y, DEFAULT_COORDINATE))
    IN  IF is_falsy(pattern)
            THEN [universe |-> u,
                  response |-> success_response(
                                   [error |-> "Missing pattern name"])]
        ELSE IF ix.raised \/ iy.raised \/ pattern.json = "array"
            THEN [universe |-> u, response |-> error_response(INTERNAL_ERROR)]
        ELSE LET name == IF pattern.json = "string" THEN pattern.text
                                                    ELSE "(not a string)"
                 r == add_pattern(u, name, ix.value, iy.value)
             IN  [universe |-> r.universe,
                  response |-> success_response(
                                   [message |-> r.message,
                                    summary |-> get_summary(r.universe, t, log)])]

(* The arguments the protocol specification sends with flip_cell: cells on *)
(* the grid given as integer, digits and fraction, cells off the grid, a   *)
(* missing and a null coordinate, and a coordinate that is no number.      *)
FlipArguments ==
    { <<JsonInt(1), JsonInt(2)>>, <<JsonNumeral(2), JsonInt(1)>>,
      <<JsonFraction(-1), JsonInt(0)>>,
      <<JsonInt(-1), JsonInt(0)>>, <<JsonInt(0), JsonInt(GRID_SIZE)>>,
      <<JsonAbsent, JsonInt(0)>>, <<JsonInt(0), JsonNull>>,
      <<JsonString("a"), JsonInt(0)>>, <<JsonInt(0), JsonString("a")>> }

(* The arguments it sends with add_pattern: known names with and without   *)
(* coordinates, an unknown name, a missing and an empty name, an unknown   *)
(* name with a coordinate that is no number, an array and a null           *)
(* coordinate.                                                             *)
PatternArguments ==
    { <<JsonString("block"), JsonInt(1), JsonInt(1)>>,
      <<JsonString("glider"), JsonAbsent, JsonAbsent>>,
      <<JsonString("pulsar"), JsonInt(1), JsonInt(1)>>,
      <<JsonString("pulsar"), JsonString("a"), JsonInt(1)>>,
      <<JsonAbsent, JsonInt(1), JsonInt(1)>>,
      <<JsonString(""), JsonInt(1), JsonInt(1)>>,
      <<JsonArray, JsonInt(1), JsonInt(1)>>,
      <<JsonString("block"), JsonNull, JsonInt(1)>> }

ToolNames == {"step_universe", "get_universe_state", "reset_universe",
              "flip_cell", "add_pattern", "get_analytics"}

UnknownToolNames == {"flip", "step"}

UnknownMethods == {"tools/run", "ping"}

(* tools/call of flip_cell: lines 466-470, 478-490, 510-530.               *)
ToolsCallFlipCell ==
    /\ edits < MaxEdits
    /\ \E in \in FlipArguments :
          LET r == call_flip_cell(universe, turn, detected_patterns,
                                  in[1], in[2])
          IN  /\ universe' = r.universe
              /\ grid_history' =
                     write_through(grid_history, history_shared, r.universe)
              /\ reply' = [op |-> "tools/call",
                           request |-> [name |-> "flip_cell", pattern |-> JsonAbsent,
                                        x |-> in[1], y |-> in[2]],
                           response |-> r.response]
    /\ edits' = edits + 1
    /\ UNCHANGED <<turn, detected_patterns, statistics, history_shared>>

(* tools/call of add_pattern: lines 466-470, 491-504, 510-530.             *)
ToolsCallAddPattern ==
    /\ edits < MaxEdits
    /\ \E in \in PatternArguments :
          LET r == call_add_pattern(universe, turn, detected_patterns,
                                    in[1], in[2], in[3])
          IN  /\ universe' = r.universe
              /\ grid_history' =
                     write_through(grid_history, history_shared, r.universe)
              /\ reply' = [op |-> "tools/call",
                           request |-> [name |-> "add_pattern", pattern |-> in[1],
                                        x |-> in[2], y |-> in[3]],
                           response |-> r.response]
    /\ edits' = edits + 1
    /\ UNCHANGED <<turn, detected_patterns, statistics, history_shared>>

(* tools/call of a name that is no tool: lines 507-521.                    *)
ToolsCallUnknownTool ==
    /\ \E name \in UnknownToolNames :
          reply' = [op |-> "tools/call",
                    request |-> [name |-> name, pattern |-> JsonAbsent,
                                 x |-> JsonAbsent, y |-> JsonAbsent],
                    response |-> success_response([error |-> "Unknown tool",
                                                   name |-> name])]
    /\ UNCHANGED <<universe, turn, grid_history, detected_patterns,
                   statistics, edits, history_shared>>

(* A method other than initialize, tools/list and tools/call: 532-540.     *)
MethodNotFound ==
    /\ \E method \in UnknownMethods :
          reply' = [op |-> method,
                    response |-> error_response(METHOD_NOT_FOUND)]
    /\ UNCHANGED <<universe, turn, grid_history, detected_patterns,
                   statistics, edits, history_shared>>

(* The requests of a client that steps, reads, flips and stamps through    *)
(* tools/call with arguments of any JSON type, and sends unknown tool and  *)
(* method names; every action is one whole pass of main's loop, which      *)
(* handle_message never leaves by an exception in these branches.          *)
ProtocolNext ==
    \/ Step
    \/ GetState
    \/ ToolsCallFlipCell
    \/ ToolsCallAddPattern
    \/ ToolsCallUnknownTool
    \/ MethodNotFound

ProtocolSpec == Init /\ [][ProtocolNext]_vars

(* A client that never resets and keeps asking for steps: flips, stamps    *)
(* and reads come in between as they like, and a step that is requested    *)
(* again and again is served in the end.                                   *)
LiveSeedGrids ==
    { GridOf({<<0, 0>>}),
      GridOf({<<1, 1>>, <<1, 2>>, <<2, 1>>, <<2, 2>>}),
      GridOf({<<1, 0>>, <<1, 1>>, <<1, 2>>}) }

LiveInit ==
    /\ \E grid \in LiveSeedGrids :
          LET fresh == new_session(grid)
          IN  /\ universe = fresh.universe
              /\ turn = fresh.turn
              /\ grid_history = fresh.grid_history
              /\ detected_patterns = fresh.detected_patterns
              /\ statistics = fresh.statistics
    /\ reply = [op |-> "none"]
    /\ edits = 0
    /\ history_shared = <<>>

LiveFlipInputs == { <<1, 2>>, <<-1, 0>> }

LiveStampInputs == { <<"block", 1, 1>> }

LiveNext ==
    \/ Step
    \/ FlipCellIn(LiveFlipInputs)
    \/ AddPatternIn(LiveStampInputs)
    \/ GetState
    \/ GetAnalytics

LiveSpec == LiveInit /\ [][LiveNext]_vars /\ WF_vars(Step)

(* ------------------------- reference notions -------------------------- *)

(* The population of a grid, counted as a set of live cells.               *)
Population(g) == Cardinality({c \in Cells : g[c] = 1})

(* The live cells among the up-to-8 cells of the grid adjacent to c.       *)
LiveAround(g, c) ==
    Cardinality({d \in ({c[1] - 1, c[1], c[1] + 1} \X {c[2] - 1, c[2], c[2] + 1})
                         \cap Cells :
                    d # c /\ g[d] = 1})

(* The generation rule stated cell by cell on the pre-step grid.           *)
RuleGrid(g) ==
    [c \in Cells |->
        IF \/ (g[c] = 1 /\ LiveAround(g, c) \in {2, 3})
           \/ (g[c] = 0 /\ LiveAround(g, c) = 3)
            THEN 1 ELSE 0]

(* The reply of a step() that found the session Finished.                  *)
IsTerminalReply(r) ==
    /\ r.op = "step_universe"
    /\ "status" \in DOMAIN r
    /\ r.status = "game_finished"

(* The reply of a step() that executed a generation.                       *)
IsSummaryReply(r) == r.op = "step_universe" /\ "summary" \in DOMAIN r

(* The population of the grid the session started (or was reset) with, in  *)
(* a session that has served no flip or stamp: the first history entry, or *)
(* the current grid before the first step.                                 *)
InitialPopulation ==
    IF grid_history = <<>> THEN Population(universe)
                           ELSE Population(grid_history[1])

(* ------------------------------- claims ------------------------------- *)

(* C1: an executed step replaces the grid by the grid the reference rule   *)
(* gives on the pre-step grid (live neighbours counted among the adjacent  *)
(* cells inside the grid, no wraparound; alive iff live with 2 or 3, or    *)
(* dead with 3), and the new grid has the same N x N domain.               *)
C1_StepAppliesRule ==
    [][turn' = turn + 1
         => /\ universe' = RuleGrid(universe)
            /\ DOMAIN universe' = Cells]_vars

(* A step from a grid with a live border cell that changed the grid and    *)
(* left live cells.                                                        *)
C1_Witness ==
    /\ IsSummaryReply(reply)
    /\ universe # grid_history[Len(grid_history)]
    /\ \E c \in Cells : c[1] = 0 /\ grid_history[Len(grid_history)][c] = 1
    /\ Population(universe) > 0

(* C2: a step() requested when turn >= max_turns returns the terminal      *)
(* status and changes neither grid, turn, statistics, history nor pattern  *)
(* log; this holds for each such call, hence for any number of them.       *)
C2_FinishedStepIsNoOp ==
    [][(turn >= max_turns /\ reply'.op = "step_universe")
         => /\ IsTerminalReply(reply')
            /\ UNCHANGED <<universe, turn, statistics, grid_history,
                           detected_patterns>>]_vars

(* The terminal status returned in a Finished session.                     *)
C2_Witness == IsTerminalReply(reply) /\ turn >= max_turns

(* C3: in a session that has only been stepped (no flip or stamp served),  *)
(* total_births - total_deaths equals the current population minus the     *)
(* population of the grid the session started or was last reset with.      *)
C3_BirthsMinusDeaths ==
    edits = 0
      => statistics.total_births - statistics.total_deaths
           = Population(universe) - InitialPopulation

(* A stepped session that has seen both births and deaths.                 *)
C3_Witness ==
    /\ edits = 0
    /\ turn >= 2
    /\ statistics.total_births > 0
    /\ statistics.total_deaths > 0

(* C4: statistics.max_alive is at least every population the session's    *)
(* grid has had, the current one included (the initial grid's and the one  *)
(* after a flip or stamp too).                                             *)
C4_MaxAliveBoundsPopulation ==
    statistics.max_alive >= Population(universe)

(* C5: a record appended to the pattern log by a step carries the turn     *)
(* number the counter has after that step's increment.                     *)
C5_RecordKeyedByNewTurn ==
    [][Len(detected_patterns') > Len(detected_patterns)
         => detected_patterns'[Len(detected_patterns')].turn = turn']_vars

(* C6: a flip_cell(x, y) with (x, y) on the grid reports the flip, sets    *)
(* cell (x, y) to its opposite value, leaves every other cell, the turn,   *)
(* the statistics, the history and the pattern log as they were, and a     *)
(* second flip_cell(x, y) on the result gives back the original grid.      *)
C6_FlipTogglesOneCell ==
    [][reply'.op = "flip_cell"
         => LET x == reply'.message.x
                y == reply'.message.y
            IN  (x \in 0 .. GRID_SIZE - 1 /\ y \in 0 .. GRID_SIZE - 1)
                  => /\ reply'.message.kind = "flipped"
                     /\ universe'[<<x, y>>] = 1 - universe[<<x, y>>]
                     /\ \A c \in Cells \ {<<x, y>>} : universe'[c] = universe[c]
                     /\ UNCHANGED <<turn, statistics, grid_history,
                                    detected_patterns>>
                     /\ flip_cell(universe', x, y).universe = universe]_vars

(* A live cell of a stepped session flipped to dead.                       *)
C6_Witness ==
    /\ reply.op = "flip_cell"
    /\ reply.message.kind = "flipped"
    /\ reply.message.from = 1
    /\ turn >= 1
    /\ Population(universe) > 0

(* The cells a pattern's offsets name from origin (x, y), on or off grid.  *)
PatternTargets(name, x, y) ==
    LET offsets == pattern_offsets(name)
    IN  {<<x + offsets[k][1], y + offsets[k][2]>> : k \in 1 .. Len(offsets)}

(* C7: add_pattern(name, x, y) with a library name reports success and     *)
(* leaves alive exactly the cells (x+dx, y+dy) of the pattern that lie on  *)
(* the grid, every other cell dead, whatever the grid was; a block whose   *)
(* origin leaves it on the grid gives exactly its 4 cells; turn,           *)
(* statistics, history and pattern log are unchanged.                      *)
C7_StampIsExactlyThePattern ==
    [][reply'.op = "add_pattern"
         => LET name == reply'.message.pattern
            IN  name \in {"glider", "blinker", "block", "beacon"}
                  => LET x == reply'.message.x
                         y == reply'.message.y
                     IN  /\ reply'.message.kind = "added"
                         /\ \A c \in Cells :
                               universe'[c] = 1 <=> c \in PatternTargets(name, x, y)
                         /\ (name = "block" /\ x \in 0 .. GRID_SIZE - 2
                                            /\ y \in 0 .. GRID_SIZE - 2)
                               => /\ Population(universe') = 4
                                  /\ \A c \in {<<x, y>>, <<x, y + 1>>,
                                               <<x + 1, y>>, <<x + 1, y + 1>>} :
                                        universe'[c] = 1
                         /\ UNCHANGED <<turn, statistics, grid_history,
                                        detected_patterns>>]_vars

(* A glider stamped partly off the grid of a stepped session.              *)
C7_Witness ==
    /\ reply.op = "add_pattern"
    /\ reply.message.kind = "added"
    /\ reply.message.pattern = "glider"
    /\ Population(universe) \in 1 .. 4
    /\ turn >= 1

(* C8: flip_cell with a coordinate off the grid (negative ones included)   *)
(* and add_pattern with a name outside the library both return their       *)
(* failure message and leave grid, turn, statistics, history and pattern   *)
(* log unchanged.                                                          *)
C8_BadRequestsChangeNothing ==
    [][/\ (/\ reply'.op = "flip_cell"
           /\ ~ (/\ reply'.message.x \in 0 .. GRID_SIZE - 1
                 /\ reply'.message.y \in 0 .. GRID_SIZE - 1))
          => /\ reply'.message.kind = "invalid_coordinates"
             /\ UNCHANGED <<universe, turn, statistics, grid_history,
                            detected_patterns>>
       /\ (/\ reply'.op = "add_pattern"
           /\ reply'.message.pattern \notin {"glider", "blinker", "block", "beacon"})
          => /\ reply'.message.kind = "unknown_pattern"
             /\ UNCHANGED <<universe, turn, statistics, grid_history,
                            detected_patterns>>]_vars

(* A flip with a negative coordinate refused on a stepped, populated grid. *)
C8_Witness ==
    /\ reply.op = "flip_cell"
    /\ reply.message.kind = "invalid_coordinates"
    /\ reply.message.x = -1
    /\ turn >= 1
    /\ Population(universe) > 0

(* C9: reset() leaves turn 0, an empty history, an empty pattern log and   *)
(* the initial statistics (max_alive 0, min_alive at the sentinel, births, *)
(* deaths and generations_stable 0), with the session Active again; a      *)
(* get_analytics() served right after it reports total_turns 0 and an      *)
(* empty pattern log.                                                      *)
C9_ResetGivesFreshSession ==
    [][/\ reply'.op = "reset_universe"
          => /\ turn' = 0
             /\ grid_history' = <<>>
             /\ detected_patterns' = <<>>
             /\ statistics' = [max_alive |-> 0,
                               min_alive |-> MIN_ALIVE_SENTINEL,
                               total_births |-> 0, total_deaths |-> 0,
                               generations_stable |-> 0]
             /\ turn' < max_turns
       /\ (reply.op = "reset_universe" /\ reply'.op = "get_analytics")
          => /\ reply'.total_turns = 0
             /\ reply'.all_patterns = <<>>]_vars

(* The reset of a session that had served a flip or stamp.                 *)
C9_Witness ==
    /\ reply.op = "reset_universe"
    /\ reply.summary.turn = 0
    /\ turn = 0
    /\ edits > 0

(* C10: the pattern list of an executed step holds a still_life match iff  *)
(* the post-step grid equals the last history entry (the pre-step grid)    *)
(* cell by cell and has a live cell; it then holds exactly one, whose      *)
(* cells field is the current population.                                  *)
C10_StillLifeIffUnchangedAndAlive ==
    [][turn' = turn + 1
         => LET result == IF Len(detected_patterns') > Len(detected_patterns)
                             THEN detected_patterns'[Len(detected_patterns')].patterns
                             ELSE <<>>
                still == SelectSeq(result, LAMBDA p : p.type = "still_life")
                last == grid_history'[Len(grid_history')]
            IN  /\ last = universe
                /\ Len(still) > 0
                     <=> ((\A c \in Cells : universe'[c] = last[c])
                          /\ Population(universe') > 0)
                /\ Len(still) <= 1
                /\ \A k \in 1 .. Len(still) :
                      still[k].cells = Population(universe')]_vars

(* A step that left a populated grid unchanged and logged the still life.  *)
C10_Witness ==
    /\ IsSummaryReply(reply)
    /\ universe = grid_history[Len(grid_history)]
    /\ detected_patterns # <<>>
    /\ detected_patterns[Len(detected_patterns)].patterns[1]
         = [type |-> "still_life", cells |-> Population(universe)]

(* The pattern list the step of this transition computed: the list of the *)
(* record it appended, or the empty list when it appended none.            *)
StepResult ==
    IF Len(detected_patterns') > Len(detected_patterns)
        THEN detected_patterns'[Len(detected_patterns')].patterns
        ELSE <<>>

(* The grid the session held before the k-th most recent executed step,    *)
(* the step of this transition being the most recent one.                  *)
GridStepsBack(k) == grid_history'[Len(grid_history') - k + 1]

OscillatorTypes == {"2-period_oscillator", "3-period_oscillator"}

(* C11: the oscillator matches of an executed step are none while fewer    *)
(* than 3 history entries are recorded; with at least 3, a period-2 match  *)
(* iff the post-step grid equals the grid of 2 steps back, and a period-3  *)
(* match iff it equals the grid of 3 steps back, each decided on its own.  *)
C11_OscillatorMatches ==
    [][turn' = turn + 1
         => LET osc == SelectSeq(StepResult, LAMBDA m : m.type \in OscillatorTypes)
                two == {k \in 1 .. Len(osc) : osc[k].period = 2}
                three == {k \in 1 .. Len(osc) : osc[k].period = 3}
            IN  /\ Len(grid_history') < 3 => osc = <<>>
                /\ Len(grid_history') >= 3
                     => /\ Cardinality(two) = IF universe' = GridStepsBack(2)
                                                 THEN 1 ELSE 0
                        /\ Cardinality(three) = IF universe' = GridStepsBack(3)
                                                   THEN 1 ELSE 0
                        /\ Len(osc) = Cardinality(two) + Cardinality(three)
                /\ \A k \in 1 .. Len(osc) :
                      osc[k].type = IF osc[k].period = 2
                                       THEN "2-period_oscillator"
                                       ELSE "3-period_oscillator"]_vars

(* A step that came back to the grid of 2 steps back without standing      *)
(* still: its list is the period-2 match alone.                            *)
C11_Witness ==
    /\ IsSummaryReply(reply)
    /\ Len(grid_history) >= 3
    /\ universe # grid_history[Len(grid_history)]
    /\ universe = grid_history[Len(grid_history) - 1]
    /\ detected_patterns # <<>>
    /\ detected_patterns[Len(detected_patterns)].turn = turn - 1
    /\ detected_patterns[Len(detected_patterns)].patterns
         = << [type |-> "2-period_oscillator", period |-> 2] >>

HasStillLife(result) ==
    \E k \in 1 .. Len(result) : result[k].type = "still_life"

HasPeriod2(result) ==
    \E k \in 1 .. Len(result) : result[k].type = "2-period_oscillator"

(* The step of this transition left a non-empty grid unchanged.            *)
StaticStep ==
    /\ turn' = turn + 1
    /\ universe' = universe
    /\ Population(universe') > 0

(* C12 as stated: every step that leaves a non-empty grid unchanged lists  *)
(* both a still-life match and a period-2 oscillator match.                *)
C12_StaticStepListsBoth ==
    [][StaticStep => HasStillLife(StepResult) /\ HasPeriod2(StepResult)]_vars

(* C12: a step that leaves a non-empty grid unchanged always lists a       *)
(* still-life match; it lists the period-2 match as well exactly when at   *)
(* least 3 history entries are recorded and the grid also equals the grid  *)
(* of 2 steps back, so the first steps of a static session list the still  *)
(* life alone.                                                             *)
C12_StaticStepListsBothOnceMature ==
    [][StaticStep
         => /\ HasStillLife(StepResult)
            /\ HasPeriod2(StepResult)
                 <=> /\ Len(grid_history') >= 3
                     /\ universe' = GridStepsBack(2)]_vars

(* A third static step in a row: its list holds both matches.              *)
C12_Witness ==
    /\ IsSummaryReply(reply)
    /\ Len(grid_history) >= 3
    /\ Population(universe) > 0
    /\ universe = grid_history[Len(grid_history)]
    /\ universe = grid_history[Len(grid_history) - 1]
    /\ detected_patterns # <<>>
    /\ detected_patterns[Len(detected_patterns)].turn = turn - 1
    /\ HasStillLife(detected_patterns[Len(detected_patterns)].patterns)
    /\ HasPeriod2(detected_patterns[Len(detected_patterns)].patterns)

(* The top-left cells of the 3x3 windows that lie in the grid, and the     *)
(* live cells of a grid in the window at a given top-left cell.            *)
WindowOrigins == (0 .. GRID_SIZE - 3) \X (0 .. GRID_SIZE - 3)

LiveInWindow(g, w) ==
    {c \in Cells : /\ c[1] \in w[1] .. w[1] + 2
                   /\ c[2] \in w[2] .. w[2] + 2
                   /\ g[c] = 1}

FiveCellWindows(g) == {w \in WindowOrigins : Cardinality(LiveInWindow(g, w)) = 5}

ScanRank(w) == w[1] * GRID_SIZE + w[2]

(* C13: the glider candidates of an executed step are none while fewer     *)
(* than 4 history entries are recorded; with at least 4 there is exactly   *)
(* one for each 3x3 window of the post-step grid that holds exactly 5 live *)
(* cells, whatever their shape, and none for any other window, each at the *)
(* window's top-left cell and in row-major order of the windows.           *)
C13_GliderCandidates ==
    [][turn' = turn + 1
         => LET cand == SelectSeq(StepResult,
                                  LAMBDA m : m.type = "potential_glider")
            IN  /\ Len(grid_history') < 4 => cand = <<>>
                /\ Len(grid_history') >= 4
                     => /\ {cand[k].position : k \in 1 .. Len(cand)}
                             = FiveCellWindows(universe')
                        /\ Len(cand) = Cardinality(FiveCellWindows(universe'))
                        /\ \A k \in 1 .. Len(cand) : cand[k].cells = 5
                        /\ \A k \in 1 .. Len(cand) - 1 :
                              ScanRank(cand[k].position)
                                < ScanRank(cand[k + 1].position)]_vars

(* A fourth step whose grid has two windows of 5 live cells and a window   *)
(* of another count: the list names the two, in order, and not the third.  *)
C13_Witness ==
    /\ IsSummaryReply(reply)
    /\ Len(grid_history) >= 4
    /\ Cardinality(FiveCellWindows(universe)) >= 2
    /\ FiveCellWindows(universe) # WindowOrigins
    /\ detected_patterns # <<>>
    /\ detected_patterns[Len(detected_patterns)].turn = turn - 1
    /\ \E k \in 1 .. Len(detected_patterns[Len(detected_patterns)].patterns) :
          LET m == detected_patterns[Len(detected_patterns)].patterns[k]
          IN  m.type = "potential_glider" /\ m.position \in FiveCellWindows(universe)

(* C14: after every operation the history holds as many entries as the     *)
(* turn counter says; an executed step appends the grid it started from    *)
(* and leaves the earlier entries as they were, a reset empties the        *)
(* history, and every other operation leaves it as it is, so the k-th      *)
(* entry is the grid held just before the k-th executed step.              *)
C14_HistoryTracksSteps ==
    [][/\ Len(grid_history) = turn
       /\ Len(grid_history') = turn'
       /\ turn' = turn + 1
            => grid_history' = Append(grid_history, universe)
       /\ reply'.op = "reset_universe" => grid_history' = <<>>
       /\ turn' # turn + 1 /\ reply'.op # "reset_universe"
            => grid_history' = grid_history]_vars

(* A session that stepped, was edited and stepped again up to the limit:   *)
(* the entry of the last step is the edited grid, not the grid the rule    *)
(* made of the entry before it.                                            *)
C14_Witness ==
    /\ IsSummaryReply(reply)
    /\ turn = max_turns
    /\ Len(grid_history) = max_turns
    /\ edits > 0
    /\ \E k \in 1 .. Len(grid_history) - 1 :
          grid_history[k + 1] # RuleGrid(grid_history[k])

(* C15: the turn counter stays within 0 .. max_turns; it changes only by   *)
(* a step taken below max_turns, which adds 1, and by a reset, which sets  *)
(* it to 0; a step at max_turns, a flip, a stamp and the two reads leave   *)
(* it as it is.                                                            *)
C15_TurnMovesByStepAndReset ==
    [][/\ turn \in 0 .. max_turns
       /\ turn' \in 0 .. max_turns
       /\ turn' # turn
            => \/ /\ reply'.op = "step_universe"
                  /\ turn < max_turns
                  /\ turn' = turn + 1
               \/ /\ reply'.op = "reset_universe"
                  /\ turn' = 0
       /\ reply'.op = "step_universe"
            => IF turn < max_turns
                  THEN turn' = turn + 1 /\ IsSummaryReply(reply')
                  ELSE turn' = turn /\ IsTerminalReply(reply')
       /\ reply'.op = "reset_universe" => turn' = 0]_vars

(* The step that brings an unedited session to max_turns.                  *)
C15_Witness ==
    /\ IsSummaryReply(reply)
    /\ reply.summary.turn = max_turns
    /\ turn = max_turns
    /\ edits = 0

(* C16: the records of the pattern log carry strictly increasing turn      *)
(* numbers and each lists at least one match; an executed step whose       *)
(* detection finds nothing appends no record, and one that finds           *)
(* something appends exactly one, after the records already there.         *)
C16_LogGrowsByNonEmptyRecords ==
    [][/\ \A k \in 1 .. Len(detected_patterns') :
             /\ detected_patterns'[k].patterns # <<>>
             /\ k > 1 => detected_patterns'[k - 1].turn
                           < detected_patterns'[k].turn
       /\ turn' = turn + 1
            => /\ StepResult = <<>> <=> detected_patterns' = detected_patterns
               /\ StepResult # <<>>
                    => /\ Len(detected_patterns') = Len(detected_patterns) + 1
                       /\ SubSeq(detected_patterns', 1, Len(detected_patterns))
                            = detected_patterns
               /\ StepResult = <<>>
                    <=> /\ ~ (universe' = universe /\ Population(universe') > 0)
                        /\ ~ (/\ Len(grid_history') >= 3
                              /\ \/ universe' = GridStepsBack(2)
                                 \/ universe' = GridStepsBack(3))
                        /\ ~ (/\ Len(grid_history') >= 4
                              /\ FiveCellWindows(universe') # {})]_vars

(* A session whose log holds several records and fewer records than        *)
(* executed steps: some steps found matches and some found none.           *)
C16_Witness ==
    /\ Len(detected_patterns) >= 2
    /\ Len(detected_patterns) < turn
    /\ IsSummaryReply(reply)

(* The k-th executed step left its grid unchanged: the rule maps the grid  *)
(* recorded before that step to itself.                                    *)
StepWasStable(k) == RuleGrid(grid_history[k]) = grid_history[k]

(* The number of most recent executed steps, taken back from the last one  *)
(* without a gap, that left their grid unchanged.                          *)
StableRun ==
    LET L == Len(grid_history)
        runs == {n \in 0 .. L : \A k \in L - n + 1 .. L : StepWasStable(k)}
    IN  CHOOSE n \in runs : \A m \in runs : m <= n

(* C17: generations_stable is the number of most recent consecutive        *)
(* executed steps whose grid after the step was cell for cell the grid     *)
(* before it: 0 as soon as a step changes any cell, even at an equal       *)
(* population, and untouched by flips, stamps and reads.                   *)
C17_GenerationsStableCountsStaticSteps ==
    statistics.generations_stable = StableRun

(* A step that changed cells at an equal population right after a static   *)
(* step: the count stood at 1 or more and is back at 0.                    *)
C17_Witness ==
    /\ IsSummaryReply(reply)
    /\ Len(grid_history) >= 2
    /\ StepWasStable(Len(grid_history) - 1)
    /\ ~ StepWasStable(Len(grid_history))
    /\ Population(universe) = Population(grid_history[Len(grid_history)])
    /\ statistics.generations_stable = 0

(* The grids of a session in order: the recorded ones, then the current.   *)
Trace == Append(grid_history, universe)

LiveCells(g) == {c \in Cells : g[c] = 1}

HorizontalSegment(r, c) == {<<r, c - 1>>, <<r, c>>, <<r, c + 1>>}

VerticalSegment(r, c) == {<<r - 1, c>>, <<r, c>>, <<r + 1, c>>}

(* In a session that is only stepped: wherever the grid is exactly the     *)
(* horizontal segment centred at a cell of the given rows, the next grid   *)
(* is exactly the vertical segment through that cell and the one after is  *)
(* the horizontal segment again.                                           *)
BlinkerTurnsInRows(rows) ==
    \A k \in 1 .. Len(Trace) :
       LET live == LiveCells(Trace[k])
       IN  \A r \in rows, c \in 1 .. GRID_SIZE - 2 :
              live = HorizontalSegment(r, c)
                => /\ k + 1 <= Len(Trace)
                        => LiveCells(Trace[k + 1]) = VerticalSegment(r, c)
                   /\ k + 2 <= Len(Trace)
                        => Trace[k + 2] = Trace[k]

(* C18 as stated: a horizontal three-in-a-row segment anywhere inside the  *)
(* grid, alone on it, becomes the vertical segment through its centre in   *)
(* one step and itself again in two.                                       *)
C18_BlinkerTurnsAnywhere == BlinkerTurnsInRows(0 .. GRID_SIZE - 1)

(* C18: a horizontal three-in-a-row segment that is alone on the grid and  *)
(* lies in neither the top nor the bottom row becomes the vertical segment *)
(* through its centre in one step and itself again in two; in an edge row  *)
(* the vertical segment does not fit and the cells die out.                *)
C18_BlinkerTurnsOffEdgeRows == BlinkerTurnsInRows(1 .. GRID_SIZE - 2)

(* Two steps taken from a horizontal segment in an inner row.              *)
C18_Witness ==
    /\ Len(grid_history) >= 2
    /\ \E r \in 1 .. GRID_SIZE - 2, c \in 1 .. GRID_SIZE - 2 :
          /\ LiveCells(grid_history[1]) = HorizontalSegment(r, c)
          /\ LiveCells(grid_history[2]) = VerticalSegment(r, c)

(* C19: a history entry keeps the value it was appended with: no step,     *)
(* flip, stamp or read changes an entry that is already there, the array   *)
(* of the current grid is the array of no entry, and until a reset, which  *)
(* empties it, the history only grows, by one entry appended at its end.   *)
C19_HistoryEntriesAreFrozen ==
    [][/\ Len(history_shared') = Len(grid_history')
       /\ \A k \in 1 .. Len(history_shared') : ~ history_shared'[k]
       /\ reply'.op # "reset_universe"
            => /\ Len(grid_history') \in {Len(grid_history),
                                          Len(grid_history) + 1}
               /\ \A k \in 1 .. Len(grid_history) :
                     grid_history'[k] = grid_history[k]
       /\ reply'.op = "reset_universe" => grid_history' = <<>>]_vars

(* A flip or a stamp that changed the current grid of a session that has   *)
(* entries recorded, the last of them the grid that was stepped from.      *)
C19_Witness ==
    /\ reply.op \in {"flip_cell", "add_pattern"}
    /\ Len(grid_history) >= 1
    /\ universe # RuleGrid(grid_history[Len(grid_history)])
    /\ universe # grid_history[Len(grid_history)]

(* The place of a match's kind in a turn's list.                           *)
KindRank(m) ==
    CASE m.type = "still_life" -> 1
      [] m.type = "2-period_oscillator" -> 2
      [] m.type = "3-period_oscillator" -> 3
      [] m.type = "potential_glider" -> 4

(* C20: in the list of every record the still-life match comes first,      *)
(* then the period-2 and the period-3 oscillator match in that order, then *)
(* the glider candidates in row-major order of their windows; the first    *)
(* three kinds occur at most once each.                                    *)
C20_MatchesInDetectorOrder ==
    \A n \in 1 .. Len(detected_patterns) :
       LET list == detected_patterns[n].patterns
       IN  \A k \in 1 .. Len(list) - 1 :
              \/ KindRank(list[k]) < KindRank(list[k + 1])
              \/ /\ KindRank(list[k]) = 4
                 /\ KindRank(list[k + 1]) = 4
                 /\ ScanRank(list[k].position) < ScanRank(list[k + 1].position)

(* A record that lists all four kinds of match.                            *)
C20_Witness ==
    \E n \in 1 .. Len(detected_patterns) :
       {KindRank(detected_patterns[n].patterns[k]) :
           k \in 1 .. Len(detected_patterns[n].patterns)} = 1 .. 4

(* A coordinate argument that names no cell: an integer off the grid or a  *)
(* string that is not a number.                                            *)
BadCoordinate(v) ==
    \/ v.json = "int" /\ v.num \notin 0 .. GRID_SIZE - 1
    \/ v.json = "string"

(* A coordinate argument a client sends with a flip it got wrong: a cell   *)
(* index, a bad coordinate or none.                                        *)
PlainCoordinate(v) ==
    \/ v.json = "int"
    \/ v.json = "string"
    \/ is_none(v)

(* The tools/call requests that carry a tool-level user error: a flip with *)
(* a bad or missing coordinate, a stamp with a missing name or with a name *)
(* of no pattern, and a call of a name that is no tool.                    *)
UserErrorRequest(req) ==
    \/ /\ req.name = "flip_cell"
       /\ PlainCoordinate(req.x) /\ PlainCoordinate(req.y)
       /\ \/ BadCoordinate(req.x) \/ BadCoordinate(req.y)
          \/ is_none(req.x) \/ is_none(req.y)
    \/ /\ req.name = "add_pattern"
       /\ \/ is_none(req.pattern)
          \/ req.pattern.json = "string" /\ req.pattern.text \notin PatternNames
    \/ req.name \notin ToolNames

(* A success envelope whose payload tells the error in words.              *)
ReportsUserError(response) ==
    /\ response.envelope = "result"
    /\ \/ "error" \in DOMAIN response.result
       \/ /\ "message" \in DOMAIN response.result
          /\ response.result.message.kind
               \in {"invalid_coordinates", "unknown_pattern"}

(* C21: a tools/call request that carries a tool-level user error is       *)
(* answered with a success envelope that tells the error, never with an    *)
(* error object; a request of an unknown method is answered with the error *)
(* object of code -32601; either way the session is left as it was.        *)
C21_UserErrorsAreReportedInResults ==
    [][/\ reply'.op = "tools/call" /\ UserErrorRequest(reply'.request)
            => /\ ReportsUserError(reply'.response)
               /\ UNCHANGED <<universe, turn, grid_history,
                              detected_patterns, statistics>>
       /\ reply'.op \in UnknownMethods
            => /\ reply'.response = error_response(METHOD_NOT_FOUND)
               /\ UNCHANGED <<universe, turn, grid_history,
                              detected_patterns, statistics>>]_vars

(* C22: when no reset is requested and steps keep being requested, with    *)
(* flips, stamps and reads in between at will, the session comes to        *)
(* turn = max_turns and stays there, having executed one step for each     *)
(* turn it was short of max_turns: the counter moves only by 1 and only    *)
(* with an executed step, the history then holds max_turns entries, and no *)
(* step, flip, stamp or read leads out of Finished.                        *)
C22_StepsLeadToFinishedForGood ==
    /\ <>[](finished(turn) /\ turn = max_turns
                           /\ Len(grid_history) = max_turns)
    /\ [][/\ finished(turn) => finished(turn')
          /\ turn' # turn => /\ turn' = turn + 1
                             /\ ~ finished(turn)
                             /\ IsSummaryReply(reply')]_vars

(* A flip or a stamp served in Finished, all max_turns steps executed.     *)
C22_Witness ==
    /\ finished(turn)
    /\ Len(grid_history) = max_turns
    /\ reply.op \in {"flip_cell", "add_pattern"}
    /\ edits > 0

=============================================================================
